---- MODULE Spec2Model ----
(***************************************************************************)
(* Model of bilibili_api/login_v2.py: the password, SMS and QR-code login  *)
(* flows, the QrCodeLogin object, the extraction of a credential from a    *)
(* redirect URL, and PhoneNumber with the country-code table.              *)
(*                                                                         *)
(* Python strings that the code slices or splits are sequences of          *)
(* one-character strings.  Opaque values issued by the server (token hash  *)
(* and key, captcha_key, qrcode_key, refresh_token) are atomic strings.    *)
(***************************************************************************)
EXTENDS Integers, Sequences, FiniteSets, TLC

VARIABLES
    platform,        \* QrCodeLogin.__platform
    qr_link,         \* QrCodeLogin.__qr_link
    qr_terminal,     \* QrCodeLogin.__qr_terminal
    qr_picture,      \* QrCodeLogin.__qr_picture
    qr_key,          \* QrCodeLogin.__qr_key
    credential,      \* QrCodeLogin.__credential
    call,            \* the last call made: its name and the inputs it read
    sent,            \* the requests that call sent to the server, in order
    outcome,         \* what that call returned or raised
    done_returned,   \* history: some check_state call has returned DONE
    sms_credential,  \* the caller's copy of login_with_sms's last result
    redirect_url,    \* the redirect URL both URL-based flows are given
    countries,       \* the content of data/countries_codes.json
    arg_number,      \* the number argument PhoneNumber is constructed with
    arg_country,     \* the country argument PhoneNumber is constructed with
    phone            \* the PhoneNumber object last constructed

vars == <<platform, qr_link, qr_terminal, qr_picture, qr_key, credential,
          call, sent, outcome, done_returned, sms_credential, redirect_url,
          countries, arg_number, arg_country, phone>>

qrVars == <<platform, qr_link, qr_terminal, qr_picture, qr_key, credential,
            done_returned>>

----------------------------------------------------------------------------
(* Bounds *)

\* the largest number of query parameters of a redirect URL
MaxParams == 3
\* the longest country argument, in characters
MaxLen == 3

----------------------------------------------------------------------------
(* Python values *)

\* None, where a string is expected
PyNone == <<"<None>">>
\* str(None)
StrNone == <<"N", "o", "n", "e">>

Min(a, b) == IF a < b THEN a ELSE b

\* s[:n]
Head_(s, n) == SubSeq(s, 1, Min(n, Len(s)))
\* s[n:]
Tail_(s, n) == SubSeq(s, n + 1, Len(s))

RECURSIVE SplitIter(_, _, _, _, _)
SplitIter(s, sep, i, cur, out) ==
    IF i > Len(s) THEN Append(out, cur)
    ELSE IF s[i] = sep THEN SplitIter(s, sep, i + 1, <<>>, Append(out, cur))
    ELSE SplitIter(s, sep, i + 1, Append(cur, s[i]), out)

\* s.split(sep), sep one character
Split(s, sep) == SplitIter(s, sep, 1, <<>>, <<>>)

\* c.upper(), on the letters the flows meet
UpperChar(c) ==
    CASE c = "d" -> "D"
      [] c = "e" -> "E"
      [] c = "s" -> "S"
      [] c = "r" -> "R"
      [] c = "i" -> "I"
      [] c = "u" -> "U"
      [] OTHER -> c

\* s.upper()
Upper(s) == [i \in 1..Len(s) |-> UpperChar(s[i])]

RECURSIVE Remove(_, _)
\* s.replace(c, "")
Remove(s, c) ==
    IF s = <<>> THEN <<>>
    ELSE IF Head(s) = c THEN Remove(Tail(s), c)
    ELSE <<Head(s)>> \o Remove(Tail(s), c)

SESSDATA == <<"S", "E", "S", "S", "D", "A", "T", "A">>
BILI_JCT == <<"b", "i", "l", "i", "_", "j", "c", "t">>
DEDEUSERID == <<"D", "e", "d", "e", "U", "s", "e", "r", "I", "D">>
DEDEUSERID_EQ_UPPER == <<"D", "E", "D", "E", "U", "S", "E", "R", "I", "D", "=">>

\* Credential(sessdata=..., bili_jct=..., dedeuserid=..., ac_time_value=...)
Credential(s, b, d, a) ==
    [kind |-> "Credential", sessdata |-> s, bili_jct |-> b, dedeuserid |-> d,
     ac_time_value |-> a]

\* None, where a Credential or a PhoneNumber is expected
NoObject == [kind |-> "None"]

\* bool(x) of an object reference: None is false, an object without __bool__ true
Truthy(x) == x.kind # "None"

Return(v) == [kind |-> "return", value |-> v]
Raise(e) == [kind |-> "raise", value |-> e]

----------------------------------------------------------------------------
(* Credential extraction from a redirect URL *)

RECURSIVE SmsScan(_, _, _)
\* login_with_sms: the loop over cookies_list
SmsScan(cookies_list, i, acc) ==
    IF i > Len(cookies_list) THEN acc
    ELSE LET cookie == cookies_list[i]
             a1 == IF Head_(cookie, 8) = SESSDATA
                   THEN [acc EXCEPT !.sessdata = Tail_(cookie, 9)] ELSE acc
             a2 == IF Head_(cookie, 8) = BILI_JCT
                   THEN [a1 EXCEPT !.bili_jct = Tail_(cookie, 9)] ELSE a1
             a3 == IF Upper(Head_(cookie, 11)) = DEDEUSERID_EQ_UPPER
                   THEN [a2 EXCEPT !.dede = Tail_(cookie, 11)] ELSE a2
         IN  SmsScan(cookies_list, i + 1, a3)

\* login_with_sms: the branch that builds the Credential from data.url
SmsCredential(url, refresh_token) ==
    LET parts == Split(url, "?") IN
    IF Len(parts) < 2 THEN Raise("IndexError")
    ELSE LET r == SmsScan(Split(parts[2], "&"), 1,
                          [sessdata |-> <<>>, bili_jct |-> <<>>, dede |-> <<>>])
         IN  Return(Credential(r.sessdata, r.bili_jct, r.dede, refresh_token))

RECURSIVE QrScan_SliceOffByOne(_, _, _)
\* QrScan with the value taken from the '=' on (cookie[8:] for cookie[9:])
QrScan_SliceOffByOne(cookies_list, i, acc) ==
    IF i > Len(cookies_list) THEN acc
    ELSE LET cookie == cookies_list[i]
             a1 == IF Head_(cookie, 8) = SESSDATA
                   THEN [acc EXCEPT !.sessdata = Tail_(cookie, 8)] ELSE acc
             a2 == IF Head_(cookie, 8) = BILI_JCT
                   THEN [a1 EXCEPT !.bili_jct = Tail_(cookie, 9)] ELSE a1
             a3 == IF Upper(Head_(cookie, 11)) = DEDEUSERID_EQ_UPPER
                   THEN [a2 EXCEPT !.dedeuserid = Tail_(cookie, 11)] ELSE a2
         IN  QrScan_SliceOffByOne(cookies_list, i + 1, a3)

RECURSIVE QrScan(_, _, _)
\* QrCodeLogin.check_state, web branch: the loop over cookies_list
QrScan(cookies_list, i, acc) ==
    IF i > Len(cookies_list) THEN acc
    ELSE LET cookie == cookies_list[i]
             a1 == IF Head_(cookie, 8) = SESSDATA
                   THEN [acc EXCEPT !.sessdata = Tail_(cookie, 9)] ELSE acc
             a2 == IF Head_(cookie, 8) = BILI_JCT
                   THEN [a1 EXCEPT !.bili_jct = Tail_(cookie, 9)] ELSE a1
             a3 == IF Upper(Head_(cookie, 11)) = DEDEUSERID_EQ_UPPER
                   THEN [a2 EXCEPT !.dedeuserid = Tail_(cookie, 11)] ELSE a2
         IN  QrScan(cookies_list, i + 1, a3)

\* QrCodeLogin.check_state, web branch: the Credential built from events.url
QrWebCredential(cred_url, ac_time_value) ==
    LET parts == Split(cred_url, "?") IN
    IF Len(parts) < 2 THEN Raise("IndexError")
    ELSE LET r == QrScan(Split(parts[2], "&"), 1,
                         [sessdata |-> <<>>, bili_jct |-> <<>>, dedeuserid |-> <<>>])
         IN  Return(Credential(r.sessdata, r.bili_jct, r.dedeuserid, ac_time_value))

RECURSIVE TvScan(_, _, _)
\* QrCodeLogin.check_state, TV branch: the loop over cookie_info.cookies
TvScan(cookie_list, i, cookies) ==
    IF i > Len(cookie_list) THEN cookies
    ELSE LET cookie == cookie_list[i]
             c == IF cookie.name = "SESSDATA"
                  THEN [cookies EXCEPT !.sessdata = cookie.value]
                  ELSE IF cookie.name = "bili_jct"
                  THEN [cookies EXCEPT !.bili_jct = cookie.value]
                  ELSE IF cookie.name = "DedeUserID"
                  THEN [cookies EXCEPT !.dedeuserid = cookie.value]
                  ELSE cookies
         IN  TvScan(cookie_list, i + 1, c)

\* QrCodeLogin.check_state, TV branch: Credential(**cookies) from events.data;
\* a key the loop never set is left to Credential's default, None
QrTvCredential(data) ==
    IF data.kind = "None" THEN Raise("TypeError")
    ELSE LET r == TvScan(data.cookie_info.cookies, 1,
                         [sessdata |-> PyNone, bili_jct |-> PyNone,
                          dedeuserid |-> PyNone])
         IN  Return(Credential(r.sessdata, r.bili_jct, r.dedeuserid,
                               data.refresh_token))

----------------------------------------------------------------------------
(* Inputs: arguments of the calls and responses of the server *)

Param(name, value) == name \o <<"=">> \o value

\* the query parameters a redirect URL is made of
QueryParams ==
    { Param(SESSDATA, <<"a">>), Param(SESSDATA, <<"b", "%">>), Param(SESSDATA, <<>>),
      Param(BILI_JCT, <<"c">>), Param(DEDEUSERID, <<"7">>),
      Param(DEDEUSERID \o <<"_", "_", "c", "k", "M", "d", "5">>, <<"m">>) }

RECURSIVE SeqsUpTo(_, _)
\* the sequences over S of length at most n
SeqsUpTo(S, n) ==
    IF n = 0 THEN {<<>>}
    ELSE LET shorter == SeqsUpTo(S, n - 1)
         IN  shorter \cup {Append(q, x) : q \in shorter, x \in S}

RECURSIVE Join(_, _)
\* sep.join(parts)
Join(parts, sep) ==
    IF parts = <<>> THEN <<>>
    ELSE IF Len(parts) = 1 THEN parts[1]
    ELSE parts[1] \o <<sep>> \o Join(Tail(parts), sep)

UrlPath == <<"h", "/", "x">>

\* the redirect URLs: a path, then '?' and up to MaxParams parameters; and the
\* URLs without a query, the empty one among them
Urls ==
    {UrlPath \o <<"?">> \o Join(q, "&") : q \in SeqsUpTo(QueryParams, MaxParams)}
        \cup {<<>>, UrlPath}

\* the URLs the flows are run on outside the comparison of the two extractions
FlowUrls ==
    { <<>>,
      UrlPath \o <<"?">> \o Join(<<Param(DEDEUSERID, <<"7">>), Param(SESSDATA, <<"a">>),
                                   Param(BILI_JCT, <<"c">>)>>, "&"),
      UrlPath \o <<"?">> \o Param(SESSDATA, <<"a">>) }

\* the status codes of the QR polling endpoints
Codes == {0, 86038, 86039, 86090, 86101}

WebEvents(codes, urls) == [code : codes, url : urls, refresh_token : {"r1"}]

TvCookie(n, v) == [name |-> n, value |-> v]

TvData ==
    { [kind |-> "None"],
      [kind |-> "dict", refresh_token |-> "r2",
       cookie_info |-> [cookies |-> <<TvCookie("SESSDATA", <<"t">>),
                                       TvCookie("bili_jct", <<"j">>),
                                       TvCookie("DedeUserID", <<"8">>),
                                       TvCookie("sid", <<"s">>)>>]],
      [kind |-> "dict", refresh_token |-> "r2",
       cookie_info |-> [cookies |-> <<TvCookie("SESSDATA", <<"t">>)>>]] }

TvEvents == [code : Codes, data : TvData]

\* the responses of the two get_qrcode endpoints
QrCodes == {[url |-> "l1", key |-> "k1"], [url |-> "l2", key |-> "k2"]}

Geetests ==
    { [done |-> FALSE, key |-> "", challenge |-> "", validate |-> "", seccode |-> ""],
      [done |-> TRUE, key |-> "gk", challenge |-> "gc", validate |-> "gv",
       seccode |-> "gs"] }

\* the responses of password.get_token
TokenData == {[hash |-> "h1", key |-> "pk1"], [hash |-> "h2", key |-> "pk2"]}

CookieJars ==
    { [SESSDATA |-> <<"p">>, bili_jct |-> <<"q">>, DedeUserID |-> <<"9">>],
      [SESSDATA |-> PyNone, bili_jct |-> PyNone, DedeUserID |-> PyNone] }

\* the responses of password.login
LoginData ==
    [code : {0, -629}, status : {0, 1, 2}, message : {"m"}, refresh_token : {"r3"},
     cookies : CookieJars]

\* the responses of sms.send
SmsSendData == [code : {0, 1002}, captcha_key : {"c1"}, message : {"m"}]

\* the responses of sms.login
SmsLoginData(codes, urls) ==
    [code : codes, status : {0, 5}, url : urls, refresh_token : {"r4"},
     message : {"m"}]

PhoneNumbers ==
    {[kind |-> "PhoneNumber", number |-> <<"1", "3">>, code |-> 86, id_ |-> 1]}

\* the values that only a response of the server can have brought
ServerIssued == {"h1", "h2", "pk1", "pk2", "k1", "k2", "c1"}

----------------------------------------------------------------------------
(* encrypt and the Geetest gate *)

\* encrypt(_hash, key, password): the RSA encryption, under key, of _hash + password
encrypt(hash_, key, password) ==
    [kind |-> "rsa", key |-> key, plain |-> <<hash_, password>>]

\* the gate that lets every Geetest through
geetest_undone_Never(geetest) == FALSE

\* `if not geetest.has_done()` of login_with_password and send_sms
geetest_undone(geetest) == ~geetest.done

----------------------------------------------------------------------------
(* QrCodeLogin *)

\* QrCodeLogin.has_qrcode
has_qrcode == qr_link # ""

\* has_done answering whether a QR code was generated, as has_qrcode does
has_done_AsHasQrcode == qr_link # ""

\* QrCodeLogin.has_done: bool(self.__credential)
has_done == Truthy(credential)

\* raise_for_statement(statement): raises when the statement is false
raise_for_statement(statement) == ~statement

\* web_state reporting an expired QR code under a name of its own
web_state_Expired(code) ==
    CASE code = 86101 -> "scan"
      [] code = 86090 -> "confirm"
      [] code = 86038 -> "expired"
      [] OTHER -> "else"

\* check_state, web branch: the state a status code is reported as; "else" is
\* the branch that reads the credential
web_state(code) ==
    CASE code = 86101 -> "scan"
      [] code = 86090 -> "confirm"
      [] code = 86038 -> "timeout"
      [] OTHER -> "else"

\* check_state, TV branch
tv_state(code) ==
    CASE code = 86039 -> "scan"
      [] code = 86038 -> "timeout"
      [] OTHER -> "else"

\* QrCodeLoginEvents
QrCodeLoginEvents == {"scan", "confirm", "timeout", "done"}

\* the polling request sent without the key of the generated QR code
events_request_NoKey(channel, key) ==
    IF channel = "web"
    THEN [api |-> "qrcode.web.get_events", qrcode_key |-> ""]
    ELSE [api |-> "qrcode.tv.get_events", auth_code |-> "", local_id |-> 0]

\* check_state: the polling request of each channel
events_request(channel, key) ==
    IF channel = "web"
    THEN [api |-> "qrcode.web.get_events", qrcode_key |-> key]
    ELSE [api |-> "qrcode.tv.get_events", auth_code |-> key, local_id |-> 0]

\* QrCodeLogin.generate_qrcode, resp the server's response
generate_qrcode(resp) ==
    /\ sent' = <<IF platform = "tv"
                 THEN [api |-> "qrcode.tv.get_qrcode_and_auth_code", local_id |-> 0]
                 ELSE [api |-> "qrcode.web.get_qrcode_and_token"]>>
    /\ qr_link' = resp.url
    /\ qr_key' = resp.key
    /\ qr_picture' = [kind |-> "Picture", data |-> resp.url]
    /\ qr_terminal' = <<resp.url>>
    /\ call' = [fn |-> "generate_qrcode", key |-> resp.key]
    /\ outcome' = Return("None")
    /\ UNCHANGED <<platform, credential, done_returned, sms_credential,
                   redirect_url, countries, arg_number, arg_country, phone>>

\* QrCodeLogin.check_state, events the server's response
check_state(events) ==
    LET web == platform = "web"
        state == IF web THEN web_state(events.code) ELSE tv_state(events.code)
        built == IF web THEN QrWebCredential(events.url, events.refresh_token)
                 ELSE QrTvCredential(events.data)
    IN  /\ sent' = <<events_request(platform, qr_key)>>
        /\ call' = [fn |-> "check_state", code |-> events.code]
        /\ IF state # "else"
           THEN /\ outcome' = Return(state)
                /\ UNCHANGED <<credential, done_returned>>
           ELSE IF built.kind = "raise"
           THEN /\ outcome' = built
                /\ UNCHANGED <<credential, done_returned>>
           ELSE /\ credential' = built.value
                /\ outcome' = Return("done")
                /\ done_returned' = TRUE
        /\ UNCHANGED <<platform, qr_link, qr_terminal, qr_picture, qr_key,
                       sms_credential, redirect_url, countries, arg_number,
                       arg_country, phone>>

\* a call of QrCodeLogin.has_done
call_has_done ==
    /\ call' = [fn |-> "has_done"]
    /\ sent' = <<>>
    /\ outcome' = Return(has_done)
    /\ UNCHANGED <<qrVars, sms_credential, redirect_url, countries, arg_number,
                   arg_country, phone>>

\* QrCodeLogin.get_credential
get_credential ==
    /\ call' = [fn |-> "get_credential"]
    /\ sent' = <<>>
    /\ outcome' = IF raise_for_statement(has_done) THEN Raise("StatementException")
                  ELSE Return(credential)
    /\ UNCHANGED <<qrVars, sms_credential, redirect_url, countries, arg_number,
                   arg_country, phone>>

----------------------------------------------------------------------------
(* Password and SMS login *)

\* str(x)
Str(x) == IF x = PyNone THEN StrNone ELSE x

\* login_with_password; token_data and login_data are the server's responses
login_with_password(username, password, geetest, token_data, login_data) ==
    /\ IF geetest_undone(geetest)
       THEN /\ sent' = <<>>
            /\ call' = [fn |-> "login_with_password", geetest_done |-> geetest.done]
            /\ outcome' = Raise("GeetestUndoneException")
       ELSE LET final_password == encrypt(token_data.hash, token_data.key, password)
                data == [api |-> "password.login", username |-> username,
                         password |-> final_password, keep |-> TRUE,
                         token |-> geetest.key, challenge |-> geetest.challenge,
                         validate |-> geetest.validate, seccode |-> geetest.seccode]
            IN  /\ sent' = <<[api |-> "password.get_token"], data>>
                /\ call' = [fn |-> "login_with_password",
                            geetest_done |-> geetest.done,
                            hash |-> token_data.hash, key |-> token_data.key,
                            code |-> login_data.code, status |-> login_data.status]
                /\ outcome' =
                     IF login_data.code = 0
                     THEN IF login_data.status = 1 THEN Raise("LoginError")
                          ELSE IF login_data.status = 2 THEN Raise("LoginError")
                          ELSE Return(Credential(Str(login_data.cookies.SESSDATA),
                                                 Str(login_data.cookies.bili_jct),
                                                 Str(login_data.cookies.DedeUserID),
                                                 login_data.refresh_token))
                     ELSE Raise("LoginError")
    /\ UNCHANGED <<qrVars, sms_credential, redirect_url, countries, arg_number,
                   arg_country, phone>>

\* send_sms; return_data is the server's response
send_sms(phonenumber, geetest, return_data) ==
    /\ IF geetest_undone(geetest)
       THEN /\ sent' = <<>>
            /\ call' = [fn |-> "send_sms", geetest_done |-> geetest.done]
            /\ outcome' = Raise("GeetestUndoneException")
       ELSE /\ sent' = <<[api |-> "sms.send", source |-> "main-fe-header",
                          tel |-> phonenumber.number, cid |-> phonenumber.code,
                          validate |-> geetest.validate, token |-> geetest.key,
                          seccode |-> geetest.seccode,
                          challenge |-> geetest.challenge]>>
            /\ call' = [fn |-> "send_sms", geetest_done |-> geetest.done,
                        code |-> return_data.code]
            /\ outcome' = IF return_data.code = 0 THEN Return(return_data.captcha_key)
                          ELSE Raise("LoginError")
    /\ UNCHANGED <<qrVars, sms_credential, redirect_url, countries, arg_number,
                   arg_country, phone>>

\* login_with_sms; return_data is the server's response
login_with_sms(phonenumber, code, captcha_id, return_data) ==
    LET built == SmsCredential(return_data.url, return_data.refresh_token)
        result == IF return_data.code = 0 /\ return_data.status # 5 THEN built
                  ELSE Raise("LoginError")
    IN  /\ sent' = <<[api |-> "sms.login", tel |-> phonenumber.number,
                      cid |-> phonenumber.code, code |-> code, source |-> "main_web",
                      captcha_key |-> captcha_id, keep |-> "true"]>>
        /\ call' = [fn |-> "login_with_sms", captcha_id |-> captcha_id,
                    code |-> return_data.code, status |-> return_data.status]
        /\ outcome' = result
        /\ sms_credential' = IF result.kind = "return" THEN result.value
                             ELSE sms_credential
        /\ UNCHANGED <<qrVars, redirect_url, countries, arg_number, arg_country,
                       phone>>

----------------------------------------------------------------------------
(* The country-code table and PhoneNumber *)

Digits == <<"0", "1", "2", "3", "4", "5", "6", "7", "8", "9">>

IsDigit(c) == \E d \in 1..10 : Digits[d] = c

DigitValue(c) == (CHOOSE d \in 1..10 : Digits[d] = c) - 1

RECURSIVE DecimalValue(_, _)
\* the value of a string of decimal digits, read from the left with acc so far
DecimalValue(s, acc) ==
    IF s = <<>> THEN acc ELSE DecimalValue(Tail(s), 10 * acc + DigitValue(Head(s)))

\* int(s) of a string: an optional sign, then decimal digits; raises ValueError
\* on anything else
PyInt(s) ==
    LET signed == s # <<>> /\ Head(s) \in {"+", "-"}
        body == IF signed THEN Tail(s) ELSE s
    IN  IF body = <<>> \/ \E i \in 1..Len(body) : ~IsDigit(body[i])
        THEN Raise("ValueError")
        ELSE Return((IF signed /\ Head(s) = "-" THEN -1 ELSE 1) * DecimalValue(body, 0))

RECURSIVE LStrip(_, _)
\* s.lstrip(c)
LStrip(s, c) == IF s # <<>> /\ Head(s) = c THEN LStrip(Tail(s), c) ELSE s

\* get_countries_list: the entries of the table, country_id read as an integer
get_countries_list ==
    [i \in 1..Len(countries) |->
        [name |-> countries[i].cname, id |-> countries[i].id,
         code |-> PyInt(countries[i].country_id).value]]

\* have_country(keyword)
have_country(keyword) ==
    /\ keyword.type = "str"
    /\ \E i \in 1..Len(get_countries_list) : get_countries_list[i].name = keyword.s

\* the integer a code argument stands for in have_code, or the ValueError
CodeArgument(code) ==
    IF code.type = "str" THEN PyInt(LStrip(code.s, "+"))
    ELSE IF code.type = "int" THEN Return(code.n)
    ELSE Return("no int")

\* have_code accepting every code it can read, in the table or not
have_code_AnyInteger(code) ==
    LET int_code == CodeArgument(code) IN
    IF int_code.kind = "raise" THEN Raise("ValueError")
    ELSE IF code.type \notin {"str", "int"} THEN Return(FALSE)
    ELSE Return(TRUE)

\* have_code(code)
have_code(code) ==
    LET int_code == CodeArgument(code) IN
    IF int_code.kind = "raise" THEN Raise("ValueError")
    ELSE IF code.type \notin {"str", "int"} THEN Return(FALSE)
    ELSE Return(\E i \in 1..Len(get_countries_list) :
                    get_countries_list[i].code = int_code.value)

\* the least element of a non-empty set of positions: the first match of a loop
First(hits) == CHOOSE i \in hits : \A j \in hits : i <= j

\* get_code_by_country(country)
get_code_by_country(country) ==
    LET list_ == get_countries_list
        hits == {i \in 1..Len(list_) : list_[i].name = country}
    IN  IF hits = {} THEN -1 ELSE list_[First(hits)].code

\* get_id_by_code(code)
get_id_by_code(code) ==
    LET list_ == get_countries_list
        hits == {i \in 1..Len(list_) : list_[i].code = code}
    IN  IF hits = {} THEN -1 ELSE list_[First(hits)].id

\* PhoneNumber.__init__(number, country)
PhoneNumber(number, country) ==
    LET stripped == Remove(number, "-")
        known == IF have_country(country) THEN Return(TRUE) ELSE have_code(country)
        code == IF have_country(country) THEN get_code_by_country(country.s)
                ELSE IF country.type = "int" THEN country.n
                ELSE PyInt(LStrip(country.s, "+")).value
        object == [kind |-> "PhoneNumber", number |-> stripped, code |-> code,
                   id_ |-> get_id_by_code(code)]
    IN  /\ call' = [fn |-> "PhoneNumber", country |-> country]
        /\ sent' = <<>>
        /\ IF known.kind = "raise" \/ ~known.value
           THEN /\ outcome' = Raise("ValueError")
                /\ UNCHANGED phone
           ELSE /\ outcome' = Return(object)
                /\ phone' = object
        /\ UNCHANGED <<qrVars, sms_credential, redirect_url, countries, arg_number,
                       arg_country>>

\* the contents of data/countries_codes.json the checks are run on
Tables ==
    { << [cname |-> <<"C", "N">>, country_id |-> <<"8", "6">>, id |-> 1],
         [cname |-> <<"U", "S">>, country_id |-> <<"1">>, id |-> 2],
         [cname |-> <<"C", "A">>, country_id |-> <<"1">>, id |-> 3] >>,
      << [cname |-> <<"C", "A">>, country_id |-> <<"1">>, id |-> 3],
         [cname |-> <<"C", "N">>, country_id |-> <<"8", "6">>, id |-> 1] >>,
      << >> }

CountryChars == {"+", "-", "0", "1", "8", "6", "C", "N"}

\* the country arguments: strings, integers, and a value of another type
CountryArgs ==
    {[type |-> "str", s |-> q] : q \in SeqsUpTo(CountryChars, MaxLen)}
        \cup {[type |-> "int", n |-> n] : n \in {-1, 0, 1, 7, 86}}
        \cup {[type |-> "other"]}

Numbers == {<<"1", "3", "-", "5">>, <<"1", "3", "5">>}

----------------------------------------------------------------------------
(* Specifications *)

Fresh ==
    /\ qr_link = ""
    /\ qr_terminal = <<>>
    /\ qr_picture = NoObject
    /\ qr_key = ""
    /\ credential = NoObject
    /\ call = [fn |-> "none"]
    /\ sent = <<>>
    /\ outcome = Return("None")
    /\ done_returned = FALSE
    /\ sms_credential = NoObject
    /\ phone = NoObject

\* the login flows, on a QrCodeLogin object of either channel
Init ==
    /\ Fresh
    /\ platform \in {"web", "tv"}
    /\ redirect_url = <<>>
    /\ countries = <<>>
    /\ arg_number = <<>>
    /\ arg_country = [type |-> "other"]

PollResponses(urls) == IF platform = "web" THEN WebEvents(Codes, urls) ELSE TvEvents

Next ==
    \/ \E resp \in QrCodes : generate_qrcode(resp)
    \/ \E events \in PollResponses(FlowUrls) : check_state(events)
    \/ call_has_done
    \/ get_credential
    \/ \E geetest \in Geetests, token_data \in TokenData, login_data \in LoginData :
           login_with_password("u", "pw", geetest, token_data, login_data)
    \/ \E phonenumber \in PhoneNumbers, geetest \in Geetests,
          return_data \in SmsSendData :
           send_sms(phonenumber, geetest, return_data)
    \/ \E phonenumber \in PhoneNumbers, captcha_id \in {"c1", "c0"},
          return_data \in SmsLoginData({0, 1006}, FlowUrls) :
           login_with_sms(phonenumber, "123456", captcha_id, return_data)

Spec == Init /\ [][Next]_vars

\* the two URL-based flows, given the same redirect URL
InitExtract ==
    /\ Fresh
    /\ platform = "web"
    /\ redirect_url \in Urls
    /\ countries = <<>>
    /\ arg_number = <<>>
    /\ arg_country = [type |-> "other"]

NextExtract ==
    \/ \E events \in WebEvents({0, 86101}, {redirect_url}) : check_state(events)
    \/ \E phonenumber \in PhoneNumbers,
          return_data \in SmsLoginData({0}, {redirect_url}) :
           login_with_sms(phonenumber, "123456", "c1", return_data)

SpecExtract == InitExtract /\ [][NextExtract]_vars

\* the construction of PhoneNumber objects over a country-code table
InitPhone ==
    /\ Fresh
    /\ platform = "web"
    /\ redirect_url = <<>>
    /\ countries \in Tables
    /\ arg_number \in Numbers
    /\ arg_country \in CountryArgs

NextPhone == PhoneNumber(arg_number, arg_country)

SpecPhone == InitPhone /\ [][NextPhone]_vars

----------------------------------------------------------------------------
(* Properties *)

\* C1: has_done() is true exactly when some earlier check_state call on the
\* object returned DONE; get_credential() returns the stored credential, a
\* Credential and not None, when has_done() is true, and raises in every other
\* state.
C1_DoneIffCheckStateReturnedDone ==
    /\ has_done <=> done_returned
    /\ call.fn = "has_done" => outcome = Return(done_returned)
    /\ call.fn = "get_credential" =>
          IF has_done
          THEN outcome = Return(credential) /\ credential.kind = "Credential"
          ELSE outcome.kind = "raise"

\* a get_credential call that returned, after a check_state that returned DONE
C1_Witness ==
    call.fn = "get_credential" /\ outcome.kind = "return" /\ done_returned

\* C2: login_with_password and send_sms, given a Geetest that is not done,
\* raise GeetestUndoneException, send no request at all and return nothing.
C2_GeetestGate ==
    (call.fn \in {"login_with_password", "send_sms"} /\ ~call.geetest_done) =>
        /\ sent = <<>>
        /\ outcome = Raise("GeetestUndoneException")

\* send_sms called with a Geetest that is not done
C2_Witness == call.fn = "send_sms" /\ ~call.geetest_done

\* C3: when the server accepts the login (code 0), login_with_password returns
\* a value: a Check object when data.status is 1 or 2, a Credential otherwise.
C3_ReturnsCheckOrCredential ==
    (call.fn = "login_with_password" /\ call.geetest_done /\ call.code = 0) =>
        /\ outcome.kind = "return"
        /\ outcome.value.kind = (IF call.status \in {1, 2} THEN "Check"
                                 ELSE "Credential")

\* the values of a request that are not the caller's own
RequestValues(req) ==
    CASE req.api = "password.login" -> {req.password.key, req.password.plain[1]}
      [] req.api = "sms.login" -> {req.captcha_key}
      [] req.api = "qrcode.web.get_events" -> {req.qrcode_key}
      [] req.api = "qrcode.tv.get_events" -> {req.auth_code}
      [] OTHER -> {}

\* C4, as stated: no request of a flow carries a value that an earlier response
\* of the server brought (token hash or key, captcha_key, qrcode_key, auth_code).
C4_NoRequestNeedsAResponse ==
    \A i \in 1..Len(sent) : RequestValues(sent[i]) \cap ServerIssued = {}

\* C4, amended: the password and QR flows are pipelines of two exchanges.  The
\* login request of login_with_password follows the token request of the same
\* call and carries the password encrypted with the hash and key of its
\* response; the polling request of check_state carries the qrcode_key or
\* auth_code stored from the latest generate_qrcode response, the empty string
\* before any; login_with_sms sends the captcha_key it is given in one request.
C4_LaterRequestCarriesEarlierResponse ==
    /\ (call.fn = "login_with_password" /\ call.geetest_done) =>
          /\ Len(sent) = 2
          /\ sent[1].api = "password.get_token"
          /\ sent[2].api = "password.login"
          /\ sent[2].password.key = call.key
          /\ sent[2].password.plain[1] = call.hash
    /\ call.fn = "generate_qrcode" => qr_key = call.key
    /\ (qr_key = "") <=> ~has_qrcode
    /\ call.fn = "check_state" =>
          /\ Len(sent) = 1
          /\ RequestValues(sent[1]) = {qr_key}
    /\ call.fn = "login_with_sms" =>
          /\ Len(sent) = 1
          /\ sent[1].captcha_key = call.captcha_id

\* a poll of a QR code that generate_qrcode obtained from the server
C4_Witness ==
    call.fn = "check_state" /\ qr_key \in ServerIssued /\ sent[1].api = "qrcode.tv.get_events"

\* C5, as stated: the states check_state reports are five.
C5_FiveStates ==
    /\ Cardinality(QrCodeLoginEvents) = 5
    /\ (call.fn = "check_state" /\ outcome.kind = "return") =>
          outcome.value \in QrCodeLoginEvents

\* C5, amended: the states check_state reports are the four of
\* QrCodeLoginEvents: SCAN, CONF, TIMEOUT and DONE.
C5_FourStates ==
    /\ Cardinality(QrCodeLoginEvents) = 4
    /\ (call.fn = "check_state" /\ outcome.kind = "return") =>
          outcome.value \in QrCodeLoginEvents

\* check_state reporting that the QR code expired
C5_Witness ==
    call.fn = "check_state" /\ outcome.kind = "return" /\ outcome.value = "timeout"

\* C6: a check_state call returns DONE or changes the stored credential only
\* when the status code of the server's response is 0, on either channel.
C6_DoneOnlyOnCodeZero ==
    [][(call'.fn = "check_state" /\ call'.code # 0) =>
          /\ outcome' # Return("done")
          /\ credential' = credential]_vars


\* the position of the first c in s, Len(s) + 1 when there is none
IndexOf(s, c) ==
    IF \E i \in 1..Len(s) : s[i] = c
    THEN CHOOSE i \in 1..Len(s) : s[i] = c /\ \A j \in 1..(i - 1) : s[j] # c
    ELSE Len(s) + 1

\* the name of a query parameter: what precedes its first '='
ParamName(p) == SubSeq(p, 1, IndexOf(p, "=") - 1)

\* the value of a query parameter: what follows its first '='
ParamValue(p) == SubSeq(p, IndexOf(p, "=") + 1, Len(p))

\* the query parameters of a URL: what follows its '?', cut at every '&'
ParamsOf(url) == Split(SubSeq(url, IndexOf(url, "?") + 1, Len(url)), "&")

\* the value of the last query parameter of the URL called name, the empty
\* string when no parameter has that name
LastValue(url, name) ==
    LET params == ParamsOf(url)
        named == {i \in 1..Len(params) : ParamName(params[i]) = name}
    IN  IF named = {} THEN <<>>
        ELSE ParamValue(params[CHOOSE i \in named : \A j \in named : j <= i])

CookieFields(c) == <<c.sessdata, c.bili_jct, c.dedeuserid>>

RECURSIVE Pow10(_)
Pow10(n) == IF n = 0 THEN 1 ELSE 10 * Pow10(n - 1)

RECURSIVE PlaceSum(_, _)
\* the number a decimal numeral denotes: the sum of its digits, each times the
\* power of ten of its place
PlaceSum(s, i) ==
    IF i > Len(s) THEN 0
    ELSE DigitValue(s[i]) * Pow10(Len(s) - i) + PlaceSum(s, i + 1)

\* the dialing codes that occur in the table
TableCodes == {PlaceSum(countries[i].country_id, 1) : i \in 1..Len(countries)}

\* the argument is a region name of the table
IsRegionName(c) ==
    c.type = "str" /\ \E i \in 1..Len(countries) : countries[i].cname = c.s

\* the argument is a dialing code of the table: an integer, or a string of
\* decimal digits after leading '+' signs, that denotes one
IsDialingCode(c) ==
    \/ c.type = "int" /\ c.n \in TableCodes
    \/ /\ c.type = "str"
       /\ \E k \in 0..(Len(c.s) - 1) :
             /\ \A i \in 1..k : c.s[i] = "+"
             /\ \A i \in (k + 1)..Len(c.s) : IsDigit(c.s[i])
             /\ PlaceSum(SubSeq(c.s, k + 1, Len(c.s)), 1) \in TableCodes

====
